---- MODULE Spec2Model ----
(***************************************************************************)
(* Model of the member form of src/src/App.tsx (InnerApp): the in-memory   *)
(* collection `members`, the editing state `editingId`, the form draft     *)
(* held by react-hook-form, the submit that is waiting for its image read, *)
(* and the localStorage entry "members".                                   *)
(*                                                                         *)
(* Strings of the source that are not ASCII are written with the names the *)
(* specification uses for them: "Mr", "Mrs", "Ms", "Other" stand for the   *)
(* four literals of the prefix enumeration (App.tsx line 20).              *)
(***************************************************************************)
EXTENDS Integers, Sequences, FiniteSets, TLC

VARIABLES
    phase,      \* "boot" before InnerApp mounts, "running", or "crashed" (Boundary shows the error)
    storage,    \* the localStorage entry under the key "members"
    members,    \* useState<Member[]> (line 110)
    editingId,  \* useState<string | null> (line 118)
    draft,      \* the form values held by useForm (line 136)
    pending,    \* the submits suspended at `await fileToDataUrl` (line 168): none or one
    uuidCount,  \* how many ids safeUUID has produced so far
    writeFailures, \* how many times setItem has thrown so far
    last        \* the handler that ran last and what it did (observation only)

vars == <<phase, storage, members, editingId, draft, pending, uuidCount, writeFailures, last>>

(***************************************************************************)
(* Bounds                                                                  *)
(***************************************************************************)
\* number of records one run may create
MaxCreates == 1

\* number of times localStorage.setItem may throw in one run
MaxWriteFailures == 1

(***************************************************************************)
(* Values                                                                  *)
(***************************************************************************)
Null == "null"
Undefined == "undefined"

\* z.enum([...]) of memberSchema, and the options of the <select>
PrefixEnum == {"Mr", "Mrs", "Ms", "Other"}

\* the File objects the user can pick in the file input
Files == {"f1"}

\* the keys of a Member object
MemberKeys ==
    {"id", "prefix", "firstName", "lastName", "photo", "workHistory",
     "ministerPosition", "ministry", "party"}

initialValues ==
    [prefix |-> "Mr", firstName |-> "", lastName |-> "", photoFile |-> Null,
     workHistory |-> "", ministerPosition |-> "", ministry |-> "", party |-> ""]

\* the schema without the min(1) of party
memberSchema_NoParty(values) ==
    /\ values.prefix \in {"Mr", "Mrs", "Ms", "Other"}
    /\ values.firstName # ""
    /\ values.lastName # ""
    /\ values.workHistory # ""

\* the schema without the min(1) of lastName
memberSchema_NoLastName(values) ==
    /\ values.prefix \in {"Mr", "Mrs", "Ms", "Other"}
    /\ values.firstName # ""
    /\ values.workHistory # ""
    /\ values.party # ""

\* zod: z.string().min(1) on four fields, z.enum on prefix; photoFile is
\* File | null | undefined, ministerPosition and ministry are unconstrained.
\* The form is built with `resolver: zodResolver(memberSchema)` (line 137):
\* react-hook-form then validates a submit with the resolver alone and does
\* not run the `rules` of a Controller, so the `required` rule of line 295
\* takes no part in the result.
memberSchema(values) ==
    /\ values.prefix \in PrefixEnum
    /\ values.firstName # ""
    /\ values.lastName # ""
    /\ values.workHistory # ""
    /\ values.party # ""
    /\ values.photoFile \in Files \cup {Null}

\* ids that start again at every page load, as a per-run counter would give
safeUUID_Restart(n) == "s" \o ToString(n)

\* `${Date.now()}`-or-randomUUID ids: the n-th id produced in this run.
\* Two calls never return the same string, and none returns an id written
\* by an earlier run.
safeUUID(n) == "u" \o ToString(n)

\* String(r.result) of a FileReader that loaded `file`
fileToDataUrl(file) == "data:" \o file

\* x || ""
OrEmpty(x) == IF x = Undefined \/ x = "" THEN "" ELSE x

\* dataUrl ?? m.photo
Coalesce(x, y) == IF x = Undefined THEN y ELSE x

(***************************************************************************)
(* JSON.stringify / JSON.parse of the collection                           *)
(***************************************************************************)
\* a photo written as null when there is none (photo: dataUrl ?? null)
StringifyMember_NullPhoto(m) ==
    [k \in MemberKeys |-> IF k = "photo" /\ m.photo = Undefined THEN Null ELSE m[k]]

\* JSON.stringify drops a property whose value is undefined.
StringifyMember(m) ==
    IF m.photo = Undefined
    THEN [k \in MemberKeys \ {"photo"} |-> m[k]]
    ELSE [k \in MemberKeys |-> m[k]]

\* the text JSON.stringify(members) puts under the key
Stringify(ms) ==
    [kind |-> "array", items |-> [i \in 1..Len(ms) |-> StringifyMember(ms[i])]]

\* reading a property the parsed object does not have gives undefined
ParseMember(o) ==
    [k \in MemberKeys |-> IF k \in DOMAIN o THEN o[k] ELSE Undefined]

ParseItems(items) == [i \in 1..Len(items) |-> ParseMember(items[i])]

\* the entry can be missing (getItem returns null), the empty string, text
\* JSON.parse rejects, or JSON text of a value: null, an object, an array.
NoItems == <<>>
Absent == [kind |-> "absent", items |-> NoItems]
EmptyText == [kind |-> "empty", items |-> NoItems]
BrokenText == [kind |-> "broken", items |-> NoItems]
JsonNull == [kind |-> "jsonNull", items |-> NoItems]
JsonObject == [kind |-> "jsonObject", items |-> NoItems]

\* line 113: raw ? JSON.parse(raw) : [], with catch -> []
\* (the result is an array only when the text is that of an array)
LoadsArray(entry) == entry.kind \in {"absent", "empty", "broken", "array"}

LoadMembers(entry) ==
    IF entry.kind = "array" THEN ParseItems(entry.items) ELSE <<>>

(***************************************************************************)
(* The operations on the collection (the updaters given to setMembers)     *)
(***************************************************************************)
\* photo: dataUrl || "", as the two optional texts are written
NewMember_EmptyPhoto(id, values, dataUrl) ==
    [id |-> id,
     prefix |-> values.prefix,
     firstName |-> values.firstName,
     lastName |-> values.lastName,
     workHistory |-> values.workHistory,
     ministerPosition |-> OrEmpty(values.ministerPosition),
     ministry |-> OrEmpty(values.ministry),
     party |-> values.party,
     photo |-> IF dataUrl = Undefined THEN "" ELSE dataUrl]

\* lines 193-203: the object appended by a create
NewMember(id, values, dataUrl) ==
    [id |-> id,
     prefix |-> values.prefix,
     firstName |-> values.firstName,
     lastName |-> values.lastName,
     workHistory |-> values.workHistory,
     ministerPosition |-> OrEmpty(values.ministerPosition),
     ministry |-> OrEmpty(values.ministry),
     party |-> values.party,
     photo |-> dataUrl]

\* photo: dataUrl, without the fallback to the stored photo
MergeMember_OverwritePhoto(m, values, dataUrl) ==
    [m EXCEPT
       !.prefix = values.prefix,
       !.firstName = values.firstName,
       !.lastName = values.lastName,
       !.workHistory = values.workHistory,
       !.ministerPosition = OrEmpty(values.ministerPosition),
       !.ministry = OrEmpty(values.ministry),
       !.party = values.party,
       !.photo = dataUrl]

\* lines 175-185: { ...m, <the seven fields>, photo: dataUrl ?? m.photo }
MergeMember(m, values, dataUrl) ==
    [m EXCEPT
       !.prefix = values.prefix,
       !.firstName = values.firstName,
       !.lastName = values.lastName,
       !.workHistory = values.workHistory,
       !.ministerPosition = OrEmpty(values.ministerPosition),
       !.ministry = OrEmpty(values.ministry),
       !.party = values.party,
       !.photo = Coalesce(dataUrl, m.photo)]

\* [{...}, ...prev]: the new record put first
CreateMembers_Prepend(prev, id, values, dataUrl) ==
    <<NewMember(id, values, dataUrl)>> \o prev

\* lines 191-204: [...prev, {...}]
CreateMembers(prev, id, values, dataUrl) ==
    Append(prev, NewMember(id, values, dataUrl))

\* lines 172-188: prev.map(m => m.id === editingId ? {...} : m)
UpdateMembers(prev, id, values, dataUrl) ==
    [i \in 1..Len(prev) |->
        IF prev[i].id = id THEN MergeMember(prev[i], values, dataUrl) ELSE prev[i]]

\* the filter with === in place of !==
KeepsOther_Inverted(m, id) == m.id = id

\* the predicate of the filter of line 231
KeepsOther(m, id) == m.id # id

\* line 231: prev.filter(m => m.id !== id)
DeleteMembers(prev, id) == SelectSeq(prev, LAMBDA m : KeepsOther(m, id))

\* the reset of onEdit with the ministry line left out
EditValues_NoMinistry(m) ==
    [prefix |-> m.prefix,
     firstName |-> m.firstName,
     lastName |-> m.lastName,
     photoFile |-> Null,
     workHistory |-> m.workHistory,
     ministerPosition |-> Coalesce(m.ministerPosition, ""),
     ministry |-> "",
     party |-> m.party]

\* lines 218-227: the values onEdit resets the form to
EditValues(m) ==
    [prefix |-> m.prefix,
     firstName |-> m.firstName,
     lastName |-> m.lastName,
     photoFile |-> Null,
     workHistory |-> m.workHistory,
     ministerPosition |-> Coalesce(m.ministerPosition, ""),
     ministry |-> Coalesce(m.ministry, ""),
     party |-> m.party]

\* an effect that never reaches setItem
Persisted_Skipped(entry, ms, ok) == entry

\* lines 120-126: the effect on [members]; setItem can throw (quota), the
\* error is logged and the entry keeps its content
Persisted(entry, ms, ok) == IF ok THEN Stringify(ms) ELSE entry

\* the persist effect as a step of the render that follows a change of members
Persist(ms, ok) ==
    /\ ~ok => writeFailures < MaxWriteFailures
    /\ storage' = Persisted(storage, ms, ok)
    /\ writeFailures' = IF ok THEN writeFailures ELSE writeFailures + 1

(***************************************************************************)
(* Inputs                                                                  *)
(***************************************************************************)
ValidA ==
    [prefix |-> "Mrs", firstName |-> "A", lastName |-> "L", photoFile |-> Null,
     workHistory |-> "W", ministerPosition |-> "", ministry |-> "", party |-> "P"]

ValidB ==
    [prefix |-> "Other", firstName |-> "B", lastName |-> "K", photoFile |-> "f1",
     workHistory |-> "V", ministerPosition |-> "M", ministry |-> "Y", party |-> "Q"]

\* what the user can have typed and picked before an action
DraftInputs ==
    {ValidA, ValidB,
     [ValidA EXCEPT !.firstName = ""],
     [ValidB EXCEPT !.lastName = ""],
     [ValidA EXCEPT !.workHistory = ""],
     [ValidB EXCEPT !.party = ""]}

\* a record written by an earlier run of the program: it passed
\* memberSchema and took its id from safeUUID in that run
Stored1 ==
    [id |-> "s1", prefix |-> "Mr", firstName |-> "C", lastName |-> "N",
     workHistory |-> "H", ministerPosition |-> "", ministry |-> "", party |-> "R",
     photo |-> "data:f0"]

\* what the entry can hold when the page is opened
StoredEntries ==
    {Absent, EmptyText, BrokenText, JsonNull, JsonObject,
     Stringify(<<>>), Stringify(<<Stored1>>)}

Did(op, id, file, write) == [op |-> op, id |-> id, file |-> file, write |-> write]

WriteResult(ok) == IF ok THEN "ok" ELSE "failed"

(***************************************************************************)
(* Initial state: the page is about to mount InnerApp                      *)
(***************************************************************************)
Init ==
    /\ phase = "boot"
    /\ storage \in StoredEntries
    /\ members = <<>>
    /\ editingId = Null
    /\ draft = initialValues
    /\ pending = <<>>
    /\ uuidCount = 0
    /\ writeFailures = 0
    /\ last = Did("boot", Null, FALSE, "none")

(***************************************************************************)
(* Actions                                                                 *)
(***************************************************************************)
\* lines 110-126: the useState initializer, the first render and the first
\* run of the persist effect. When JSON.parse returns a value that is not
\* an array, the render throws at members.length / members.map (lines
\* 401-405), Boundary shows the error and no effect runs.
Startup ==
    /\ phase = "boot"
    /\ IF LoadsArray(storage)
       THEN \E ok \in BOOLEAN :
              /\ phase' = "running"
              /\ members' = LoadMembers(storage)
              /\ Persist(LoadMembers(storage), ok)
              /\ last' = Did("startup", Null, FALSE, WriteResult(ok))
       ELSE /\ phase' = "crashed"
            /\ last' = Did("crash", Null, FALSE, "none")
            /\ UNCHANGED <<members, storage, writeFailures>>
    /\ UNCHANGED <<editingId, draft, pending, uuidCount>>

\* the user types in the inputs and picks a file (register / field.onChange)
Fill(d) ==
    /\ phase = "running"
    /\ draft' = d
    /\ last' = Did("fill", Null, FALSE, "none")
    /\ UNCHANGED <<phase, storage, members, editingId, pending, uuidCount, writeFailures>>

\* lines 171-208, after the image step: the mutation, the reset of the
\* form, and the persist effect of the render that follows
Complete(values, eid, dataUrl, ok) ==
    /\ IF eid # Null
       THEN /\ members' = UpdateMembers(members, eid, values, dataUrl)
            /\ editingId' = Null
            /\ UNCHANGED uuidCount
            /\ last' = Did("updated", eid, dataUrl # Undefined, WriteResult(ok))
       ELSE /\ members' = CreateMembers(members, safeUUID(uuidCount + 1), values, dataUrl)
            /\ uuidCount' = uuidCount + 1
            /\ UNCHANGED editingId
            /\ last' = Did("created", safeUUID(uuidCount + 1), dataUrl # Undefined,
                           WriteResult(ok))
    /\ draft' = initialValues
    /\ Persist(members', ok)

\* lines 164-170: handleSubmit validates the form values; an invalid draft
\* ends the submit before the callback; a draft with a File suspends at the
\* await with the values and the editingId of this render; otherwise the
\* callback runs through. The submit button is disabled while a submit is
\* in progress (line 379).
OnSubmit ==
    /\ phase = "running"
    /\ pending = <<>>
    /\ editingId = Null => uuidCount < MaxCreates
    /\ IF ~memberSchema(draft)
       THEN /\ last' = Did("invalid", editingId, draft.photoFile # Null, "none")
            /\ UNCHANGED <<storage, members, editingId, draft, pending, uuidCount, writeFailures>>
       ELSE IF draft.photoFile # Null
       THEN /\ pending' = <<[values |-> draft, editingId |-> editingId]>>
            /\ last' = Did("pending", editingId, TRUE, "none")
            /\ UNCHANGED <<storage, members, editingId, draft, uuidCount, writeFailures>>
       ELSE /\ \E ok \in BOOLEAN : Complete(draft, editingId, Undefined, ok)
            /\ UNCHANGED pending
    /\ UNCHANGED phase

\* a continuation that reads the editingId of the latest render (as through a ref)
ReadDone_CurrentEditing ==
    /\ phase = "running"
    /\ pending # <<>>
    /\ \E ok \in BOOLEAN :
         Complete(pending[1].values, editingId,
                  fileToDataUrl(pending[1].values.photoFile), ok)
    /\ pending' = <<>>
    /\ UNCHANGED phase

\* line 44: r.onload resolves the promise and the callback continues
ReadDone ==
    /\ phase = "running"
    /\ pending # <<>>
    /\ \E ok \in BOOLEAN :
         Complete(pending[1].values, pending[1].editingId,
                  fileToDataUrl(pending[1].values.photoFile), ok)
    /\ pending' = <<>>
    /\ UNCHANGED phase

\* the catch written as a finally-like path that also leaves the edit
ReadFail_Resets ==
    /\ phase = "running"
    /\ pending # <<>>
    /\ pending' = <<>>
    /\ editingId' = Null
    /\ draft' = initialValues
    /\ last' = Did("readFailed", pending[1].editingId, TRUE, "none")
    /\ UNCHANGED <<phase, storage, members, uuidCount, writeFailures>>

\* line 45 and lines 209-213: r.onerror rejects, the catch logs and alerts
ReadFail ==
    /\ phase = "running"
    /\ pending # <<>>
    /\ pending' = <<>>
    /\ last' = Did("readFailed", pending[1].editingId, TRUE, "none")
    /\ UNCHANGED <<phase, storage, members, editingId, draft, uuidCount, writeFailures>>

\* lines 216-228, from the edit button of the i-th listed record
OnEdit(i) ==
    /\ phase = "running"
    /\ i \in 1..Len(members)
    /\ editingId' = members[i].id
    /\ draft' = EditValues(members[i])
    /\ last' = Did("edit", members[i].id, FALSE, "none")
    /\ UNCHANGED <<phase, storage, members, pending, uuidCount, writeFailures>>

\* onDelete without lines 232-235: the edit of a deleted record goes on
OnDelete_NoReset(i) ==
    /\ phase = "running"
    /\ i \in 1..Len(members)
    /\ LET id == members[i].id IN
         \E ok \in BOOLEAN :
           /\ members' = DeleteMembers(members, id)
           /\ Persist(members', ok)
           /\ last' = Did("delete", id, FALSE, WriteResult(ok))
    /\ UNCHANGED <<phase, editingId, draft, pending, uuidCount>>

\* onDelete without the test of line 232: every delete leaves the edit
OnDelete_AlwaysResets(i) ==
    /\ phase = "running"
    /\ i \in 1..Len(members)
    /\ LET id == members[i].id IN
         \E ok \in BOOLEAN :
           /\ members' = DeleteMembers(members, id)
           /\ editingId' = Null /\ draft' = initialValues
           /\ Persist(members', ok)
           /\ last' = Did("delete", id, FALSE, WriteResult(ok))
    /\ UNCHANGED <<phase, pending, uuidCount>>

\* lines 230-236, from the delete button of the i-th listed record, with
\* the persist effect of the render that follows
OnDelete(i) ==
    /\ phase = "running"
    /\ i \in 1..Len(members)
    /\ LET id == members[i].id IN
         \E ok \in BOOLEAN :
           /\ members' = DeleteMembers(members, id)
           /\ IF editingId = id
              THEN editingId' = Null /\ draft' = initialValues
              ELSE UNCHANGED <<editingId, draft>>
           /\ Persist(members', ok)
           /\ last' = Did("delete", id, FALSE, WriteResult(ok))
    /\ UNCHANGED <<phase, pending, uuidCount>>

\* lines 386-389: the "clear form" button
Cancel ==
    /\ phase = "running"
    /\ editingId' = Null
    /\ draft' = initialValues
    /\ last' = Did("cancel", Null, FALSE, "none")
    /\ UNCHANGED <<phase, storage, members, pending, uuidCount, writeFailures>>

\* the page is loaded again: the reload button of Boundary (line 76) or the
\* browser's own; every useState and the form start afresh, a suspended
\* submit is gone with the page, the entry stays
Reopen ==
    /\ phase \in {"running", "crashed"}
    /\ phase' = "boot"
    /\ members' = <<>>
    /\ editingId' = Null
    /\ draft' = initialValues
    /\ pending' = <<>>
    /\ last' = Did("boot", Null, FALSE, "none")
    /\ UNCHANGED <<storage, uuidCount, writeFailures>>

Next ==
    \/ Startup
    \/ Reopen
    \/ \E d \in DraftInputs : Fill(d)
    \/ OnSubmit
    \/ ReadDone
    \/ ReadFail
    \/ \E i \in DOMAIN members : OnEdit(i)
    \/ \E i \in DOMAIN members : OnDelete(i)
    \/ Cancel

Spec == Init /\ [][Next]_vars

(***************************************************************************)
(* Vocabulary of the claims                                                *)
(***************************************************************************)
Running == phase = "running"

Ids(ms) == {ms[i].id : i \in DOMAIN ms}

\* every id a run of the model can meet
AllIds == {Stored1.id} \cup {safeUUID(n) : n \in 1..MaxCreates}

\* the step is the submit handler being invoked (not the end of an image read)
SubmitStep == pending = <<>> /\ last'.op \in {"invalid", "pending", "created", "updated"}

\* the values, the target and the image of the submit that completes in this step
SubmitValues == IF pending # <<>> THEN pending[1].values ELSE draft
SubmitTarget == IF pending # <<>> THEN pending[1].editingId ELSE editingId
SubmitImage ==
    IF SubmitValues.photoFile = Null THEN Undefined ELSE "data:" \o SubmitValues.photoFile

EnumeratedPrefixes == {"Mr", "Mrs", "Ms", "Other"}

\* the four required texts are present and the prefix is one of the four
RequiredFieldsGiven(v) ==
    /\ v.prefix \in EnumeratedPrefixes
    /\ v.firstName # "" /\ v.lastName # "" /\ v.workHistory # "" /\ v.party # ""

\* the record carries the seven form fields of v
CarriesFields(m, v) ==
    /\ m.prefix = v.prefix
    /\ m.firstName = v.firstName
    /\ m.lastName = v.lastName
    /\ m.workHistory = v.workHistory
    /\ m.ministerPosition = v.ministerPosition
    /\ m.ministry = v.ministry
    /\ m.party = v.party

C2_UpdateInPlace ==
    [][(last'.op = "updated" /\ SubmitTarget \in Ids(members)) =>
          /\ Len(members') = Len(members)
          /\ \A i \in DOMAIN members :
               IF members[i].id = SubmitTarget
               THEN /\ members'[i].id = members[i].id
                    /\ CarriesFields(members'[i], SubmitValues)
                    /\ members'[i].photo =
                         IF SubmitImage # Undefined THEN SubmitImage ELSE members[i].photo
               ELSE members'[i] = members[i]]_vars

\* an update without an image has just kept a stored photo, next to another record
C2_Witness ==
    /\ last.op = "updated" /\ ~last.file /\ Len(members) >= 2
    /\ \E i \in DOMAIN members : members[i].id = last.id /\ members[i].photo # Undefined

(***************************************************************************)
(* C3: a delete of an id that is in the collection removes exactly that    *)
(* one record; deleting an id that is not in the collection leaves the     *)
(* collection as it is; deleting the same id twice gives what deleting it  *)
(* once gives.                                                             *)
(***************************************************************************)
C3_Delete ==
    /\ [][last'.op = "delete" =>
            \E k \in DOMAIN members :
               /\ members[k].id = last'.id
               /\ members' = [i \in 1..(Len(members) - 1) |->
                                IF i < k THEN members[i] ELSE members[i + 1]]]_vars
    /\ [](\A id \in AllIds :
            /\ id \notin Ids(members) => DeleteMembers(members, id) = members
            /\ DeleteMembers(DeleteMembers(members, id), id) = DeleteMembers(members, id))

\* a delete has just removed one of several records
C3_Witness == last.op = "delete" /\ Len(members) >= 1 /\ last.id \notin Ids(members)

(***************************************************************************)
(* C4: a submit of a draft with an empty firstName, lastName, workHistory  *)
(* or party, or with a prefix outside the enumeration, changes neither the *)
(* collection nor the editing state.                                       *)
(***************************************************************************)
C4_InvalidSubmitNoChange ==
    [][(SubmitStep /\ ~RequiredFieldsGiven(draft)) =>
          /\ members' = members
          /\ editingId' = editingId
          /\ storage' = storage]_vars

\* an invalid draft has just been submitted while a record was being edited
C4_Witness == last.op = "invalid" /\ editingId # Null /\ editingId \in Ids(members)

(***************************************************************************)
(* C5: the photo is required exactly when creating: a submit in Creating   *)
(* of a draft that is valid but for its missing image fails validation and *)
(* adds no record, and the same submit in Editing(id) succeeds.            *)
(***************************************************************************)
C5_PhotoRequiredWhenCreating ==
    [][(SubmitStep /\ RequiredFieldsGiven(draft) /\ draft.photoFile = Null) =>
          IF editingId = Null
          THEN last'.op = "invalid" /\ members' = members
          ELSE last'.op = "updated"]_vars

(***************************************************************************)
(* C6: a submit in Creating of a draft with a valid prefix, the four       *)
(* required texts and no image appends exactly one record, whose id no     *)
(* record had, which carries the draft's fields and has no photo.          *)
(***************************************************************************)
C6_CreateWithoutImage ==
    [][(SubmitStep /\ editingId = Null /\ RequiredFieldsGiven(draft)
          /\ draft.photoFile = Null) =>
          /\ Len(members') = Len(members) + 1
          /\ SubSeq(members', 1, Len(members)) = members
          /\ LET m == members'[Len(members')] IN
               /\ m.id \notin Ids(members)
               /\ m.photo = Undefined
               /\ CarriesFields(m, draft)]_vars

\* a create without an image has just added a record without a photo
C6_Witness ==
    /\ last.op = "created" /\ ~last.file
    /\ members[Len(members)].id = last.id
    /\ members[Len(members)].photo = Undefined

(***************************************************************************)
(* C7: a submit whose image read fails changes neither the collection nor  *)
(* the editing state (nor the stored entry), neither when it is suspended  *)
(* for the read nor when the read fails, for a create and for an update.   *)
(***************************************************************************)
C7_ReadFailureNoChange ==
    [][last'.op \in {"pending", "readFailed"} =>
          /\ members' = members
          /\ editingId' = editingId
          /\ storage' = storage]_vars

\* the image read of an update has just failed, the record is still being edited
C7_Witness ==
    /\ last.op = "readFailed" /\ last.id # Null
    /\ editingId = last.id /\ editingId \in Ids(members)

(***************************************************************************)
(* C8: every create, update and delete is followed by a write of the whole *)
(* collection: when the write succeeds the entry is the serialization of   *)
(* the collection in memory; when it fails the entry keeps its content and *)
(* the collection in memory keeps the mutation.                            *)
(***************************************************************************)
MutationOps == {"created", "updated", "delete"}

MutationApplied ==
    /\ last'.op = "created" => Len(members') = Len(members) + 1
    /\ last'.op = "delete" =>
         Len(members') = Len(members) - 1 /\ last'.id \notin Ids(members')
    /\ (last'.op = "updated" /\ SubmitTarget \in Ids(members)) =>
         \E i \in DOMAIN members' :
            members'[i].id = SubmitTarget /\ CarriesFields(members'[i], SubmitValues)

C8_PersistAfterMutation ==
    [][last'.op \in MutationOps =>
          /\ last'.write \in {"ok", "failed"}
          /\ last'.write = "ok" => storage' = Stringify(members')
          /\ last'.write = "failed" => storage' = storage /\ MutationApplied]_vars

\* a mutation whose write failed: memory and the entry differ
C8_Witness ==
    last.op \in MutationOps /\ last.write = "failed" /\ storage # Stringify(members)

(***************************************************************************)
(* C9: startup gives the deserialized snapshot when the entry holds a      *)
(* serialized collection and the empty collection for any other content of *)
(* the entry, and never ends in an error.                                  *)
(***************************************************************************)
C9_StartupNeverFails ==
    [][phase = "boot" =>
          /\ phase' = "running"
          /\ members' = IF storage.kind = "array" THEN ParseItems(storage.items) ELSE <<>>]_vars

(***************************************************************************)
(* C10: in every state of the running form every record of the collection  *)
(* has a non-empty firstName, lastName, workHistory and party and a prefix *)
(* of the enumeration.                                                     *)
(***************************************************************************)
C10_RecordsValid ==
    Running => \A i \in DOMAIN members : RequiredFieldsGiven(members[i])

\* a loaded record and a created one, after an update
C10_Witness == last.op = "updated" /\ Len(members) >= 2 /\ Stored1.id \in Ids(members)

\* the step ends a submit: it applies the create or the update of lines 171-205
CompletesSubmit == last'.op \in {"created", "updated"}

(***************************************************************************)
(* C11: an update applied for an id that is not in the collection ends as  *)
(* a failure (NotFound), not as an update, and leaves the collection       *)
(* unchanged.                                                              *)
(***************************************************************************)
C11_UpdateAbsentFails ==
    [][(last'.op \in {"created", "updated", "notFound"} /\ SubmitTarget # Null
          /\ SubmitTarget \notin Ids(members)) =>
          /\ last'.op = "notFound"
          /\ members' = members]_vars

(***************************************************************************)
(* C12: round trip: the deserialization of the serialization of every      *)
(* collection the running form holds is that collection (same records,     *)
(* same fields, a missing photo still missing, same order), and after a    *)
(* successful write the entry deserializes to the collection in memory.    *)
(***************************************************************************)
C12_RoundTrip ==
    Running =>
       /\ LoadMembers(Stringify(members)) = members
       /\ last.write = "ok" => LoadMembers(storage) = members

\* a page load has just read back two records, one of them without a photo
C12_Witness ==
    /\ last.op = "startup" /\ Len(members) >= 2
    /\ \E i \in DOMAIN members : members[i].photo = Undefined

(***************************************************************************)
(* C13: every submit that succeeds ends with no record being edited and    *)
(* the draft at its defaults, whether it began in Creating or in Editing,  *)
(* and whatever was clicked while its image was being read.                *)
(***************************************************************************)
C13_SubmitEndsInCreating ==
    [][CompletesSubmit => editingId' = Null /\ draft' = initialValues]_vars

(***************************************************************************)
(* C14: a delete of the record being edited leaves the edit (no record     *)
(* edited, draft at its defaults); a delete of any other record, or a      *)
(* delete while nothing is edited, leaves the editing state and the draft  *)
(* as they were.                                                           *)
(***************************************************************************)
C14_DeleteAndEditing ==
    [][last'.op = "delete" =>
          IF editingId = last'.id
          THEN editingId' = Null /\ draft' = initialValues
          ELSE editingId' = editingId /\ draft' = draft]_vars

\* a record has just been deleted while another one stays edited, its draft typed in
C14_Witness ==
    /\ last.op = "delete" /\ editingId # Null /\ editingId # last.id
    /\ draft # initialValues

(***************************************************************************)
(* C15: beginEdit of a listed record, from either state, makes that record *)
(* the one being edited, sets the draft's seven fields to the record's,    *)
(* clears the draft's image, and leaves the collection unchanged.          *)
(***************************************************************************)
C15_BeginEdit ==
    [][last'.op = "edit" =>
          \E i \in DOMAIN members :
             /\ members[i].id = last'.id
             /\ editingId' = members[i].id
             /\ CarriesFields(members[i], draft')
             /\ draft'.photoFile = Null
             /\ members' = members
             /\ storage' = storage]_vars

\* a record with a ministry has just been taken into the form, next to another record
C15_Witness ==
    /\ last.op = "edit" /\ editingId = last.id /\ Len(members) >= 2
    /\ draft.ministry # "" /\ draft.photoFile = Null

(***************************************************************************)
(* C16: the collection keeps insertion order: a create puts the new record *)
(* after all the others, an update keeps every record at its position, a   *)
(* delete keeps the remaining records in their order; so the records are   *)
(* always listed in the order in which they were created.                  *)
(***************************************************************************)
\* the stored record was created by an earlier run, then come the ids of safeUUID
CreationRank(id) ==
    IF id = Stored1.id THEN 0 ELSE CHOOSE n \in 1..MaxCreates : id = "u" \o ToString(n)

C17_NoInterleaving ==
    [][(pending # <<>> /\ pending' = pending) =>
          members' = members /\ editingId' = editingId]_vars

(***************************************************************************)
(* C18: in every state of the running form, also while a submit waits for  *)
(* its image, the record being edited (if any) is in the collection.       *)
(***************************************************************************)
C18_EditedRecordExists ==
    Running => (editingId # Null => editingId \in Ids(members))

\* a record has just been deleted while a submit waits and another record is edited
C18_Witness ==
    last.op = "delete" /\ pending # <<>> /\ editingId # Null

(***************************************************************************)
(* C19: the target of a submit is fixed when it is invoked: a submit       *)
(* invoked in Creating appends a record with its values whatever was       *)
(* clicked meanwhile; a submit invoked in Editing(id) changes the record   *)
(* with that id and no other, and changes nothing when that record is no   *)
(* longer in the collection.                                               *)
(***************************************************************************)
C19_TargetFixedAtInvocation ==
    [][(pending # <<>> /\ CompletesSubmit) =>
          IF pending[1].editingId = Null
          THEN /\ Len(members') = Len(members) + 1
               /\ \A i \in DOMAIN members : members'[i] = members[i]
               /\ CarriesFields(members'[Len(members')], pending[1].values)
          ELSE /\ Len(members') = Len(members)
               /\ \A i \in DOMAIN members :
                    IF members[i].id = pending[1].editingId
                    THEN CarriesFields(members'[i], pending[1].values)
                    ELSE members'[i] = members[i]]_vars

\* a create invoked in Creating has completed after an edit was begun meanwhile
C19_Witness ==
    last.op = "created" /\ last.file /\ editingId # Null /\ Len(members) >= 2

(***************************************************************************)
(* C20: startup writes the loaded collection back to the entry before any  *)
(* user action: a write is attempted, and when it succeeds the entry is    *)
(* the serialization of the loaded collection, which for an entry that was *)
(* absent or malformed is the serialization of the empty collection.       *)
(***************************************************************************)
C20_StartupWritesBack ==
    [][phase = "boot" =>
          /\ last'.write \in {"ok", "failed"}
          /\ last'.write = "ok" =>
               /\ storage' = Stringify(members')
               /\ storage.kind # "array" => storage' = Stringify(<<>>)]_vars

====
